---- MODULE Spec2Model ----
(***************************************************************************)
(* Model of createAsyncBatcher (src/index.ts): the pending queue, the      *)
(* flush timers the host holds for timeoutCallback, the flushes started    *)
(* so far with their batch / timeout timer / abort controller, and the     *)
(* promises returned by run().                                             *)
(*                                                                         *)
(* Time is discrete and measured from the present: Date.now() is 0, a      *)
(* timer's deadline is the time left until it fires and lastRunTimestamp   *)
(* is zero or negative.  A tick of the clock moves every time stamp by -1. *)
(* A host timer fires at its deadline: the clock does not pass a timer     *)
(* that is due.                                                            *)
(***************************************************************************)
EXTENDS Integers, Sequences, FiniteSets, TLC

\* ---- bound of the model: run() is called until MaxReq calls are accepted ----
MaxReq == 2

\* ---- inputs ----
Periods == {1, 2}
TimeoutPeriods == {0, 1}
Data == {"x"}

\* timer handles are the positive ids 1, 2, ...; 0 stands for undefined
Undefined == 0

\* a time stamp further back than every period (compared with period only)
NegInfinity == -3

\* Date.now(), in the frame that moves with the clock
DateNow == 0

VARIABLES
  period,            \* let period
  timeoutPeriod,     \* let timeoutPeriod (0 = falsy: no timeout)
  pendingPromises,   \* const pendingPromises: sequence of request ids
  timer,             \* let timer: Timer
  stopped,           \* let stopped
  lastRunTimestamp,  \* let lastRunTimestamp
  flushTimers,       \* host timers armed by setTimeout(timeoutCallback, period)
  flushes,           \* one record per invocation of timeoutCallback
  promises,          \* the promises created by run(), indexed by request id
  lastRun            \* outcome of the last run() call

vars == <<period, timeoutPeriod, pendingPromises, timer, stopped,
          lastRunTimestamp, flushTimers, flushes, promises, lastRun>>

Range(s) == {s[i] : i \in DOMAIN s}

\* ---- host timers ----
setTimeout(ts, id, delay) == ts \cup {[id |-> id, deadline |-> DateNow + delay]}

clearTimeout(ts, handle) == {t \in ts : t.id # handle}

\* ---- Promise resolve / reject: only the first call has an effect ----
SettleOverwrite(ps, r, v) == [ps EXCEPT ![r].state = v]

Settle(ps, r, v) ==
  IF ps[r].state = "pending" THEN [ps EXCEPT ![r].state = v] ELSE ps

\* ---- rejectAll of one flush ----
rejectAllButLast(ps, batch, error) ==
  [r \in DOMAIN ps |->
     IF \E i \in 1..(Len(batch) - 1) : batch[i] = r
     THEN Settle(ps, r, error)[r] ELSE ps[r]]

rejectEvery(ps, batch, error) ==
  [r \in DOMAIN ps |-> Settle(ps, r, error)[r]]

rejectAll(ps, batch, error) ==
  [r \in DOMAIN ps |->
     IF r \in Range(batch) THEN Settle(ps, r, error)[r] ELSE ps[r]]

\* ---- the swap at the start of a flush ----
SnapshotReversed(q) == [i \in 1..Len(q) |-> q[Len(q) + 1 - i]]

Snapshot(q) == q

TruncateKeep(q) == q

Truncate(q) == <<>>

\* ---- reschedule ----
rescheduleInverted(id) ==
  IF ~stopped
  THEN flushTimers
  ELSE setTimeout(clearTimeout(flushTimers, timer), id, period)

reschedule(id) ==
  IF stopped \/ (timer # Undefined /\ DateNow - lastRunTimestamp > period)
  THEN flushTimers
  ELSE setTimeout(clearTimeout(flushTimers, timer), id, period)

Init ==
  /\ period \in Periods
  /\ timeoutPeriod \in TimeoutPeriods
  /\ pendingPromises = <<>>
  /\ timer = Undefined
  /\ stopped = FALSE
  /\ lastRunTimestamp = NegInfinity
  /\ flushTimers = {}
  /\ flushes = <<>>
  /\ promises = <<>>
  /\ lastRun = "none"

\* ---- public methods ----
RunThrowsNever == FALSE

RunThrows == stopped

\* run() is called while fewer than MaxReq calls have been accepted.  The
\* handle returned by setTimeout in reschedule is not stored: no method
\* assigns timer.
Run(data) ==
  /\ Len(promises) < MaxReq
  /\ IF RunThrows
     THEN /\ lastRun' = "BatcherStoppedError"
          /\ UNCHANGED <<period, timeoutPeriod, pendingPromises, timer,
                         stopped, lastRunTimestamp, flushTimers, flushes,
                         promises>>
     ELSE /\ LET id == Len(promises) + 1 IN
               /\ promises' = Append(promises,
                                [content |-> data, state |-> "pending"])
               /\ pendingPromises' = Append(pendingPromises, id)
               /\ flushTimers' = reschedule(id)
          /\ lastRun' = "accepted"
          /\ UNCHANGED <<period, timeoutPeriod, timer, stopped,
                         lastRunTimestamp, flushes>>

StopInterrupts ==
  /\ flushTimers' = clearTimeout(flushTimers, timer)
  /\ stopped' = TRUE
  /\ flushes' = [f \in DOMAIN flushes |->
                   [flushes[f] EXCEPT !.timeoutTimer = -1]]
  /\ UNCHANGED <<period, timeoutPeriod, pendingPromises, timer,
                 lastRunTimestamp, promises, lastRun>>

StopClearsAll ==
  /\ flushTimers' = {}
  /\ stopped' = TRUE
  /\ UNCHANGED <<period, timeoutPeriod, pendingPromises, timer,
                 lastRunTimestamp, flushes, promises, lastRun>>

Stop ==
  /\ flushTimers' = clearTimeout(flushTimers, timer)
  /\ stopped' = TRUE
  /\ UNCHANGED <<period, timeoutPeriod, pendingPromises, timer,
                 lastRunTimestamp, flushes, promises, lastRun>>

StartRearms ==
  /\ stopped' = FALSE
  /\ flushTimers' = IF pendingPromises # <<>>
                    THEN reschedule(Len(promises) + 1)
                    ELSE flushTimers
  /\ UNCHANGED <<period, timeoutPeriod, pendingPromises, timer,
                 lastRunTimestamp, flushes, promises, lastRun>>

Start ==
  /\ stopped' = FALSE
  /\ UNCHANGED <<period, timeoutPeriod, pendingPromises, timer,
                 lastRunTimestamp, flushTimers, flushes, promises, lastRun>>

ChangePeriod(periodInMs) ==
  /\ period' = periodInMs
  /\ UNCHANGED <<timeoutPeriod, pendingPromises, timer, stopped,
                 lastRunTimestamp, flushTimers, flushes, promises, lastRun>>

\* the timeout timer of a flush: the time left while it is armed
NoTimer == -1

\* ---- timeoutCallback: the flush timer fires ----
TimeoutCallback(t) ==
  /\ t \in flushTimers
  /\ t.deadline <= DateNow
  /\ flushTimers' = flushTimers \ {t}
  /\ lastRunTimestamp' = DateNow
  /\ flushes' = Append(flushes,
       [batch |-> Snapshot(pendingPromises),
        exec |-> "running",
        timeoutTimer |-> IF timeoutPeriod # 0 THEN DateNow + timeoutPeriod
                                              ELSE NoTimer,
        aborts |-> 0, logs |-> 0])
  /\ pendingPromises' = Truncate(pendingPromises)
  /\ UNCHANGED <<period, timeoutPeriod, timer, stopped, promises, lastRun>>

\* ---- the timeout timer of flush f fires ----
TimeoutHandlerShared(f) ==
  /\ f \in DOMAIN flushes
  /\ flushes[f].timeoutTimer # NoTimer
  /\ flushes[f].timeoutTimer <= DateNow
  /\ promises' = rejectAll(promises, flushes[f].batch, "BatcherTimeoutError")
  /\ flushes' = [g \in DOMAIN flushes |->
       IF g = f
       THEN [flushes[g] EXCEPT !.timeoutTimer = NoTimer,
                               !.aborts = 1, !.logs = @ + 1]
       ELSE [flushes[g] EXCEPT !.aborts = 1]]
  /\ UNCHANGED <<period, timeoutPeriod, pendingPromises, timer, stopped,
                 lastRunTimestamp, flushTimers, lastRun>>

TimeoutHandler(f) ==
  /\ f \in DOMAIN flushes
  /\ flushes[f].timeoutTimer # NoTimer
  /\ flushes[f].timeoutTimer <= DateNow
  /\ promises' = rejectAll(promises, flushes[f].batch, "BatcherTimeoutError")
  /\ flushes' = [flushes EXCEPT ![f].timeoutTimer = NoTimer,
                                ![f].aborts = @ + 1,
                                ![f].logs = @ + 1]
  /\ UNCHANGED <<period, timeoutPeriod, pendingPromises, timer, stopped,
                 lastRunTimestamp, flushTimers, lastRun>>

\* ---- the batch executor (props.batcherCallback) of flush f ----
ExecResolveAny(f, r) ==
  /\ f \in DOMAIN flushes
  /\ r \in DOMAIN promises
  /\ promises' = Settle(promises, r, "resolved")
  /\ UNCHANGED <<period, timeoutPeriod, pendingPromises, timer, stopped,
                 lastRunTimestamp, flushTimers, flushes, lastRun>>

ExecResolve(f, r) ==
  /\ f \in DOMAIN flushes
  /\ r \in Range(flushes[f].batch)
  /\ promises' = Settle(promises, r, "resolved")
  /\ UNCHANGED <<period, timeoutPeriod, pendingPromises, timer, stopped,
                 lastRunTimestamp, flushTimers, flushes, lastRun>>

ExecReject(f, r) ==
  /\ f \in DOMAIN flushes
  /\ r \in Range(flushes[f].batch)
  /\ promises' = Settle(promises, r, "rejected")
  /\ UNCHANGED <<period, timeoutPeriod, pendingPromises, timer, stopped,
                 lastRunTimestamp, flushTimers, flushes, lastRun>>

\* the awaited call completes normally: finally { clearTimeout(timeoutTimer) }
ExecReturnNoClear(f) ==
  /\ f \in DOMAIN flushes
  /\ flushes[f].exec = "running"
  /\ flushes' = [flushes EXCEPT ![f].exec = "returned"]
  /\ UNCHANGED <<period, timeoutPeriod, pendingPromises, timer, stopped,
                 lastRunTimestamp, flushTimers, promises, lastRun>>

ExecReturn(f) ==
  /\ f \in DOMAIN flushes
  /\ flushes[f].exec = "running"
  /\ flushes' = [flushes EXCEPT ![f].exec = "returned",
                                ![f].timeoutTimer = NoTimer]
  /\ UNCHANGED <<period, timeoutPeriod, pendingPromises, timer, stopped,
                 lastRunTimestamp, flushTimers, promises, lastRun>>

\* the call throws or its promise rejects: catch { logError; rejectAll }
ExecThrowNoLog(f) ==
  /\ f \in DOMAIN flushes
  /\ flushes[f].exec = "running"
  /\ promises' = rejectAll(promises, flushes[f].batch, "ExecutorError")
  /\ flushes' = [flushes EXCEPT ![f].exec = "threw",
                                ![f].timeoutTimer = NoTimer]
  /\ UNCHANGED <<period, timeoutPeriod, pendingPromises, timer, stopped,
                 lastRunTimestamp, flushTimers, lastRun>>

ExecThrow(f) ==
  /\ f \in DOMAIN flushes
  /\ flushes[f].exec = "running"
  /\ promises' = rejectAll(promises, flushes[f].batch, "ExecutorError")
  /\ flushes' = [flushes EXCEPT ![f].exec = "threw",
                                ![f].timeoutTimer = NoTimer,
                                ![f].logs = @ + 1]
  /\ UNCHANGED <<period, timeoutPeriod, pendingPromises, timer, stopped,
                 lastRunTimestamp, flushTimers, lastRun>>

\* ---- the clock advances by one unit; it does not pass a due timer ----
Older(ts) == IF ts - 1 < NegInfinity THEN NegInfinity ELSE ts - 1

Tick ==
  /\ \A t \in flushTimers : t.deadline > DateNow
  /\ \A f \in DOMAIN flushes :
       flushes[f].timeoutTimer # NoTimer => flushes[f].timeoutTimer > DateNow
  /\ flushTimers' = {[t EXCEPT !.deadline = @ - 1] : t \in flushTimers}
  /\ flushes' = [f \in DOMAIN flushes |->
       IF flushes[f].timeoutTimer # NoTimer
       THEN [flushes[f] EXCEPT !.timeoutTimer = @ - 1]
       ELSE flushes[f]]
  /\ lastRunTimestamp' = Older(lastRunTimestamp)
  /\ UNCHANGED <<period, timeoutPeriod, pendingPromises, timer, stopped,
                 promises, lastRun>>

Next ==
  \/ \E d \in Data : Run(d)
  \/ Stop
  \/ Start
  \/ \E p \in Periods : ChangePeriod(p)
  \/ \E t \in flushTimers : TimeoutCallback(t)
  \/ \E f \in DOMAIN flushes : TimeoutHandler(f)
  \/ \E f \in DOMAIN flushes : \E r \in DOMAIN promises : ExecResolve(f, r)
  \/ \E f \in DOMAIN flushes : \E r \in DOMAIN promises : ExecReject(f, r)
  \/ \E f \in DOMAIN flushes : ExecReturn(f)
  \/ \E f \in DOMAIN flushes : ExecThrow(f)
  \/ Tick

Spec == Init /\ [][Next]_vars

\* timers fire and the clock advances; the executor is under no obligation
FairSpec ==
  /\ Spec
  /\ WF_vars(Tick)
  /\ WF_vars(\E t \in flushTimers : TimeoutCallback(t))
  /\ WF_vars(\E f \in DOMAIN flushes : TimeoutHandler(f))

\* ---- shorthands used by the properties ----
Flushes == DOMAIN flushes

Batch(f) == Range(flushes[f].batch)

State(r) == promises[r].state

Settled(r) == r \in DOMAIN promises /\ State(r) # "pending"

\* C1: the run() calls of one window cause exactly one invocation of the
\* executor: once a flush has taken the requests of the window, no flush
\* timer armed by one of their run() calls is left to invoke it again.
C1_Coalescing ==
  [][Len(flushes') > Len(flushes) =>
       /\ flushes'[Len(flushes')].batch = pendingPromises
       /\ \A t \in flushTimers' : t.id \notin Range(pendingPromises)]_vars

\* C2: at most one flush timer is outstanding in every reachable state.
C2_SingleTimer == Cardinality(flushTimers) <= 1

\* C3: once a request has a terminal outcome, no later resolve / reject
\* attempt (executor, executor error, timeout) changes it.
C3_ExactlyOnce ==
  [][\A r \in DOMAIN promises :
       State(r) # "pending" => promises'[r].state = State(r)]_vars

\* the timeout's reject-all ran over a request the executor had resolved
C3_Witness ==
  \E f \in Flushes :
    /\ flushes[f].aborts = 1
    /\ \E r \in Batch(f) : State(r) = "resolved"

LeftToExecutor(r) ==
  \E f \in Flushes :
    /\ r \in Batch(f)
    /\ \/ flushes[f].exec = "returned"
       \/ flushes[f].exec = "running" /\ timeoutPeriod = 0

BatchesDisjoint ==
  /\ \A f, g \in Flushes : f # g => Batch(f) \cap Batch(g) = {}
  /\ \A f \in Flushes : Batch(f) \cap Range(pendingPromises) = {}
  /\ \A f \in Flushes : \A i, j \in DOMAIN flushes[f].batch :
       i # j => flushes[f].batch[i] # flushes[f].batch[j]

\* C5: batches are pairwise disjoint and disjoint from the queue (looked
\* at after every step that touches a batch or the queue), a batch never
\* changes after the swap, the batch of a new flush is the queue at the
\* moment the timer fires, and the queue is empty right after.
C5_OneBatch ==
  [][/\ (flushes' # flushes \/ pendingPromises' # pendingPromises) =>
          BatchesDisjoint'
     /\ \A f \in Flushes : flushes'[f].batch = flushes[f].batch
     /\ Len(flushes') > Len(flushes) =>
          /\ flushes'[Len(flushes')].batch = pendingPromises
          /\ pendingPromises' = <<>>]_vars

\* a second non-empty flush started while the first executor was running
C5_Witness ==
  \E f, g \in Flushes :
    /\ f < g
    /\ flushes[f].exec = "running"
    /\ Batch(f) # {}
    /\ Batch(g) # {}

\* C6: while stopped, run() throws BatcherStoppedError and changes neither
\* the queue nor the timers nor any promise; when not stopped it enqueues
\* a pending request.
C6_StoppedRejection ==
  [][/\ stopped =>
          /\ Len(promises') = Len(promises)
          /\ lastRun' \in {lastRun, "BatcherStoppedError"}
     /\ lastRun' # lastRun /\ lastRun' = "BatcherStoppedError" =>
          /\ stopped
          /\ pendingPromises' = pendingPromises
          /\ flushTimers' = flushTimers
          /\ promises' = promises
     /\ Len(promises') > Len(promises) =>
          /\ ~stopped
          /\ lastRun' = "accepted"
          /\ pendingPromises' = Append(pendingPromises, Len(promises'))
          /\ promises'[Len(promises')].state = "pending"]_vars

\* a run() was rejected while a request was queued and its timer armed
C6_Witness ==
  /\ lastRun = "BatcherStoppedError"
  /\ stopped
  /\ pendingPromises # <<>>
  /\ flushTimers # {}

\* C7: while the batcher is stopped no flush begins and the queue keeps
\* the requests that were pending at stop().
C7_StopCancels ==
  [][stopped =>
       /\ Len(flushes') = Len(flushes)
       /\ pendingPromises' = pendingPromises]_vars

\* C8: the timeout timer of a flush is armed with timeoutPeriod; the abort
\* signal of a flush is triggered at most once; it is triggered only at
\* the deadline of that timer, with the executor not completed, and that
\* step fails every unsettled request of the batch with the timeout error;
\* a running flush whose timeout timer is gone has been aborted.
C8_TimeoutUniformity ==
  [][/\ (Len(flushes') > Len(flushes) /\ timeoutPeriod # 0) =>
          flushes'[Len(flushes')].timeoutTimer = DateNow + timeoutPeriod
     /\ \A f \in Flushes :
          /\ flushes'[f].aborts <= 1
          /\ flushes'[f].aborts # flushes[f].aborts =>
               /\ timeoutPeriod # 0
               /\ flushes[f].exec = "running"
               /\ flushes[f].timeoutTimer = DateNow
               /\ \A r \in Batch(f) :
                    promises'[r].state =
                      IF State(r) = "pending" THEN "BatcherTimeoutError"
                                              ELSE State(r)
          /\ (timeoutPeriod # 0 /\ flushes'[f].exec = "running"
                /\ flushes'[f].timeoutTimer = NoTimer) =>
               /\ flushes'[f].aborts = 1
               /\ \A r \in Batch(f) : promises'[r].state # "pending"]_vars

\* a timed-out flush: one request failed with the timeout error, another
\* kept the outcome the executor had given it
C8_Witness ==
  \E f \in Flushes :
    /\ flushes[f].aborts = 1
    /\ flushes[f].exec = "running"
    /\ \E r1, r2 \in Batch(f) :
         /\ State(r1) = "BatcherTimeoutError"
         /\ State(r2) = "resolved"

\* C9: when the executor of a flush throws, exactly the unsettled requests
\* of its batch are failed with the executor's error; every other request
\* keeps its state.
C9_ExecutorFailure ==
  [][\A f \in Flushes :
       (flushes[f].exec = "running" /\ flushes'[f].exec = "threw") =>
         \A r \in DOMAIN promises :
           promises'[r].state =
             IF r \in Batch(f) /\ State(r) = "pending"
             THEN "ExecutorError" ELSE State(r)]_vars

\* a failed flush with one request failed by the error and one the
\* executor had rejected itself
C9_Witness ==
  \E f \in Flushes :
    /\ flushes[f].exec = "threw"
    /\ \E r1, r2 \in Batch(f) :
         /\ State(r1) = "ExecutorError"
         /\ State(r2) = "rejected"

\* C10: a window is flushed at the deadline of the timer armed by its
\* first request, not earlier, whatever changePeriod did since; a newly
\* armed timer is due after the current period.
C10_PeriodChange ==
  [][/\ (Len(flushes') > Len(flushes) /\ pendingPromises # <<>>) =>
          \A t \in flushTimers :
            t.id = Head(pendingPromises) => t.deadline = DateNow
     /\ \A t \in flushTimers' :
          t.id \notin {u.id : u \in flushTimers} =>
            t.deadline = DateNow + period]_vars

\* C11: a step that takes the batcher from stopped to running changes
\* nothing but the flag (no timer, no flush, queue, period and promises as
\* they were); start() on a running batcher and stop() on a stopped one
\* change nothing at all.
C11_StartOnlySetsFlag ==
  [][/\ (stopped /\ ~stopped') =>
          UNCHANGED <<period, timeoutPeriod, pendingPromises, timer,
                      lastRunTimestamp, flushTimers, flushes, promises,
                      lastRun>>
     /\ ~stopped => ~ENABLED <<Start>>_vars
     /\ stopped => ~ENABLED <<Stop>>_vars]_vars

\* start() was called on a stopped batcher holding a queued request
C11_Witness ==
  /\ ~stopped
  /\ lastRun = "BatcherStoppedError"
  /\ pendingPromises # <<>>

\* C12: the stored handle timer is set exactly while a flush timer is
\* armed.
C12_TimerHandle == (timer # Undefined) <=> (flushTimers # {})

\* C13: a step in which the timeout of a flush fires or its executor fails
\* leaves every other flush (batch, timeout timer, abort signal, log) as
\* it was and changes no promise outside that flush's batch, nor the queue.
C13_FlushScoped ==
  [][\A f \in Flushes :
       (\/ flushes'[f].aborts # flushes[f].aborts
        \/ flushes[f].exec = "running" /\ flushes'[f].exec = "threw") =>
         /\ \A g \in Flushes : g # f => flushes'[g] = flushes[g]
         /\ \A r \in DOMAIN promises :
              r \notin Batch(f) => promises'[r] = promises[r]
         /\ pendingPromises' = pendingPromises]_vars

\* two flushes with their own requests ran at once; one timed out, the
\* other goes on with its timer armed, its signal quiet, its request pending
C13_Witness ==
  \E f, g \in Flushes :
    /\ f # g
    /\ flushes[f].aborts = 1
    /\ \E r \in Batch(f) : State(r) = "BatcherTimeoutError"
    /\ flushes[g].exec = "running"
    /\ flushes[g].aborts = 0
    /\ flushes[g].timeoutTimer # NoTimer
    /\ \E r \in Batch(g) : State(r) = "pending"

\* C14: once the executor of a flush has completed, the flush's abort
\* signal is not triggered any more and no request of its batch is failed
\* with the timeout error any more; its timeout timer is gone.
C14_TimeoutCancelled ==
  [][\A f \in Flushes :
       flushes'[f].exec # "running" =>
         /\ flushes'[f].timeoutTimer = NoTimer
         /\ flushes[f].exec # "running" =>
              /\ flushes'[f].aborts = flushes[f].aborts
              /\ \A r \in Batch(f) :
                   promises'[r].state = "BatcherTimeoutError" =>
                     State(r) = "BatcherTimeoutError"]_vars

\* the executor returned before the timeout with a request left unsettled
C14_Witness ==
  /\ timeoutPeriod # 0
  /\ \E f \in Flushes :
       /\ flushes[f].exec = "returned"
       /\ flushes[f].aborts = 0
       /\ \E r \in Batch(f) : State(r) = "pending"

\* C15: the step that stops the batcher leaves every flush and every
\* promise as it was, and while the batcher is stopped a running executor
\* can still return, fail, resolve and reject the requests of its batch,
\* and a due timeout timer still fires.
C15_StopDoesNotInterrupt ==
  [][/\ (~stopped /\ stopped') =>
          /\ flushes' = flushes
          /\ promises' = promises
     /\ stopped =>
          \A f \in Flushes :
            /\ flushes[f].exec = "running" =>
                 /\ ENABLED ExecReturn(f)
                 /\ ENABLED ExecThrow(f)
            /\ \A r \in Batch(f) :
                 State(r) = "pending" =>
                   /\ ENABLED <<ExecResolve(f, r)>>_vars
                   /\ ENABLED <<ExecReject(f, r)>>_vars
            /\ flushes[f].timeoutTimer = DateNow =>
                 ENABLED TimeoutHandler(f)]_vars

\* with the batcher stopped, a flush timed out: one request failed with
\* the timeout error, another had been resolved by the executor
C15_Witness ==
  /\ stopped
  /\ \E f \in Flushes :
       /\ flushes[f].aborts = 1
       /\ \E r1, r2 \in Batch(f) :
            /\ State(r1) = "BatcherTimeoutError"
            /\ State(r2) = "resolved"

IsIncreasing(q) == \A i, j \in DOMAIN q : i < j => q[i] < q[j]

\* C16: request ids count the run() calls; the queue and every batch list
\* their requests in that order, and every accepted request is in the
\* queue or in exactly one batch.
C16_InsertionOrder ==
  /\ IsIncreasing(pendingPromises)
  /\ \A f \in Flushes : IsIncreasing(flushes[f].batch)
  /\ \A r \in DOMAIN promises :
       Cardinality({f \in Flushes : r \in Batch(f)})
         + (IF r \in Range(pendingPromises) THEN 1 ELSE 0) = 1

\* a batch holds the first two requests in the order of their run() calls
C16_Witness ==
  \E f \in Flushes : flushes[f].batch = <<1, 2>>

FlushFailed(f) == flushes[f].aborts > 0 \/ flushes[f].exec = "threw"

\* C17 (as claimed): a flush has one log entry if it failed at flush level
\* (timeout or executor throw) and none otherwise, never two.
C17_OneLogPerFlush ==
  \A f \in Flushes : flushes[f].logs = IF FlushFailed(f) THEN 1 ELSE 0

\* C17 (amended): a flush has one log entry for the timeout if its timeout
\* elapsed and one for the executor's error if its executor threw: none
\* without a failure, two when the executor throws after the timeout.
C17_OneLogPerFailure ==
  \A f \in Flushes :
    flushes[f].logs =
      flushes[f].aborts + (IF flushes[f].exec = "threw" THEN 1 ELSE 0)

\* the executor of a flush threw after the flush had timed out
C17_Witness ==
  \E f \in Flushes :
    /\ flushes[f].aborts = 1
    /\ flushes[f].exec = "threw"
    /\ flushes[f].logs = 2

\* C18: a request in the queue is unsettled, and a settled request is in
\* the batch of some flush.
C18_QueuedUnsettled ==
  \A r \in DOMAIN promises :
    /\ r \in Range(pendingPromises) => State(r) = "pending"
    /\ State(r) # "pending" => \E f \in Flushes : r \in Batch(f)

\* a request waits in the queue while an earlier one has been settled
C18_Witness ==
  /\ pendingPromises # <<>>
  /\ \E r \in DOMAIN promises : State(r) # "pending"

C20_NonEmptyBatch == \A f \in Flushes : flushes[f].batch # <<>>
====
